---- MODULE Spec2Model ----
(***************************************************************************)
(* Model of adafruit_featherwing/gps_featherwing.py: the GPSFeatherWing    *)
(* facade over a UART transport (busio.UART) and an NMEA parser object     *)
(* (adafruit_gps.GPS).  The facade's own code is translated statement by   *)
(* statement; the two collaborators are not part of the source tree and    *)
(* appear only through what the facade hands them and reads back.          *)
(***************************************************************************)
EXTENDS Integers, Sequences, FiniteSets, TLC

VARIABLES
    interp,   \* the Python implementation running the module
    pc,       \* "new" (before __init__), "ready" (constructed), "failed" (__init__ raised)
    uart,     \* everything done to the transport, in order: open, write, read
    gps,      \* the attributes of self._gps that the properties read (the Fix State)
    call,     \* the last call made on the facade: its name and its argument
    ret,      \* what that call returned
    err       \* the exception that call raised, "none" when it returned

vars == <<interp, pc, uart, gps, call, ret, err>>

(***************************************************************************)
(* Bounds of the model.                                                    *)
(***************************************************************************)
MaxPeriod == 2001   \* largest update_period tried
MaxLog == 4         \* transport events kept (the first 3 belong to construction)
MaxFix == 2         \* distinct position samples / speed samples the parser can deliver
MaxRead == 1        \* largest read size tried

(***************************************************************************)
(* Python values: a type tag, a rational n/d for numbers, a text s.        *)
(***************************************************************************)
Py(t, n, d, s) == [t |-> t, n |-> n, d |-> d, s |-> s]
PyNone == Py("NoneType", 0, 1, "")
PyInt(i) == Py("int", i, 1, "")
PyBool(b) == Py("bool", IF b THEN 1 ELSE 0, 1, "")
PyFloat(n, d) == Py("float", n, d, "")
PyStr(s) == Py("str", 0, 1, s)
PyBytes(s) == Py("bytes", 0, 1, s)
PyByteArray(s) == Py("bytearray", 0, 1, s)

\* isinstance(x, cls): bool is a subclass of int; bytes is not a bytearray.
isinstance(x, cls) ==
    IF cls = "int" THEN x.t \in {"int", "bool"} ELSE x.t = cls


(***************************************************************************)
(* The transport, busio.UART, seen from the facade: a log of what was done *)
(* to it.  The baud rate is passed through unchanged and is not recorded.  *)
(***************************************************************************)
UartOpen(timeout) == [ev |-> "open", cmd |-> "", arg |-> timeout]
UartWrite(command, n) == [ev |-> "write", cmd |-> command, arg |-> n]
UartRead(size) == [ev |-> "read", cmd |-> "", arg |-> size]

\* self._gps.send_command(command): the command goes out on the transport.
gps_send_command(u, command) == Append(u, UartWrite(command.s, command.n))

(***************************************************************************)
(* The Fix State: the attributes of self._gps behind the properties.       *)
(***************************************************************************)
GPSRecord(pos, spd) ==
    LET fld(v) == IF pos = 0 THEN PyNone ELSE v
    IN  [latitude |-> fld(PyFloat(pos, 1)),
         longitude |-> fld(PyFloat(0 - pos, 1)),
         fix_quality |-> fld(PyInt(1)),
         has_fix |-> PyBool(pos > 0),
         timestamp_utc |-> fld(Py("struct_time", pos, 1, "")),
         satellites |-> fld(PyInt(pos + 3)),
         altitude_m |-> fld(PyFloat(pos, 1)),
         speed_knots |-> spd,
         track_angle_deg |-> IF spd.t = "NoneType" THEN PyNone ELSE PyFloat(844, 10),
         horizontal_dilution |-> fld(PyFloat(9, 10)),
         height_geoid |-> fld(PyFloat(469, 10))]

\* 10.0 knots, 22.4 knots, ... or no speed yet
Speeds == {PyNone} \cup {PyFloat(100 + 124 * (i - 1), 10) : i \in 1..MaxFix}

\* adafruit_gps.GPS(self._uart, debug=False): nothing has been received yet.
GPSInit == GPSRecord(0, PyNone)

\* what self._gps.update() may leave behind
GPSStates == {GPSRecord(pos, spd) : pos \in 0..MaxFix, spd \in Speeds}

(***************************************************************************)
(* __init__ (lines 43-61).                                                 *)
(***************************************************************************)
\* Timeout without lines 54-55
TimeoutNoClamp(update_period) == update_period \div 1000 + 2

\* lines 53-55
Timeout(update_period) ==
    LET timeout == update_period \div 1000 + 2
    IN  IF timeout < 3 THEN 3 ELSE timeout

\* ConfigCommands with the two statements exchanged
ConfigCommandsSwapped(update_period) ==
    << Py("bytes", update_period, 1, "PMTK220,{}"),
       Py("bytes", 0, 1, "PMTK314,0,1,0,1,0,0,0,0,0,0,0,0,0,0,0,0,0,0,0") >>

\* lines 60-61: the two commands, in the order they are sent
ConfigCommands(update_period) ==
    << Py("bytes", 0, 1, "PMTK314,0,1,0,1,0,0,0,0,0,0,0,0,0,0,0,0,0,0,0"),
       Py("bytes", update_period, 1, "PMTK220,{}") >>

\* line 61, b'PMTK220,{}'.format(update_period): bytes has a format method under
\* CircuitPython (MicroPython) and none under CPython 3, where the attribute
\* lookup raises AttributeError.  The package installs on both.
BytesFormatRaises == interp = "CPython"

UpdatePeriods ==
    {PyInt(p) : p \in {q \in 0..MaxPeriod : q % 1000 \in {0, 1, 999}}
                      \cup {0 - 1, 100, 249, 250, 251, 1500}}
    \cup {PyBool(TRUE), PyBool(FALSE), PyFloat(1000, 1), PyStr("1000"), PyNone}

GPSFeatherWing(update_period) ==
    /\ pc = "new"
    /\ call' = [op |-> "__init__", arg |-> update_period]
    /\ ret' = PyNone
    /\ UNCHANGED interp
    /\ IF ~isinstance(update_period, "int")
       THEN /\ err' = "ValueError"
            /\ pc' = "failed"
            /\ UNCHANGED <<uart, gps>>
       ELSE IF update_period.n < 250
       THEN /\ err' = "ValueError"
            /\ pc' = "failed"
            /\ UNCHANGED <<uart, gps>>
       ELSE LET cmds == ConfigCommands(update_period.n)
                opened == <<UartOpen(Timeout(update_period.n))>>
                first == gps_send_command(opened, cmds[1])
            IN  /\ gps' = GPSInit
                /\ IF BytesFormatRaises
                   THEN /\ err' = "AttributeError"
                        /\ pc' = "failed"
                        /\ uart' = first
                   ELSE /\ err' = "none"
                        /\ pc' = "ready"
                        /\ uart' = gps_send_command(first, cmds[2])

(***************************************************************************)
(* update (lines 63-71): everything is delegated to self._gps.update(),    *)
(* which may rewrite the Fix State and reports whether it parsed anything. *)
(***************************************************************************)
update ==
    /\ pc = "ready"
    /\ call' = [op |-> "update", arg |-> PyNone]
    /\ gps' \in GPSStates
    /\ ret' \in {PyBool(TRUE), PyBool(FALSE)}
    /\ err' = "none"
    /\ UNCHANGED <<interp, pc, uart>>

(***************************************************************************)
(* read (lines 73-83).                                                     *)
(***************************************************************************)
\* ReadSizeOk without `and size > 0`
ReadSizeAnyInt(size) == isinstance(size, "int")

\* line 81
ReadSizeOk(size) == isinstance(size, "int") /\ size.n > 0

Sizes ==
    {PyInt(k) : k \in (0 - 1)..MaxRead}
    \cup {PyBool(TRUE), PyBool(FALSE), PyFloat(2, 1), PyStr("2"), PyNone}

read(size) ==
    /\ pc = "ready"
    /\ call' = [op |-> "read", arg |-> size]
    /\ err' = "none"
    /\ UNCHANGED <<interp, pc, gps>>
    /\ IF ReadSizeOk(size)
       THEN /\ Len(uart) < MaxLog
            /\ uart' = Append(uart, UartRead(size.n))
            \* self._uart.read(size): some bytes, or None on a timeout
            /\ ret' \in {PyNone, Py("bytes", size.n, 1, "")}
       ELSE /\ ret' = PyNone
            /\ UNCHANGED uart

(***************************************************************************)
(* send_command (lines 85-92).                                             *)
(***************************************************************************)
\* AcceptsCommand testing for any bytes-like type
AcceptsAnyBinary(command) == command.t \in {"bytes", "bytearray"}

\* line 91
AcceptsCommand(command) == isinstance(command, "bytearray")

Commands ==
    {PyByteArray("PMTK605"), PyByteArray("PMTK000"), PyBytes("PMTK605"),
     PyStr("PMTK605"), PyInt(605), PyNone}

send_command(command) ==
    /\ pc = "ready"
    /\ call' = [op |-> "send_command", arg |-> command]
    /\ ret' = PyNone
    /\ err' = "none"
    /\ UNCHANGED <<interp, pc, gps>>
    /\ IF AcceptsCommand(command)
       THEN /\ Len(uart) < MaxLog
            /\ uart' = gps_send_command(uart, command)
       ELSE UNCHANGED uart

(***************************************************************************)
(* The properties (lines 94-183): each reads one attribute of self._gps.   *)
(* A property either returns a value or raises.                            *)
(***************************************************************************)
Return(v) == [err |-> "none", val |-> v]
Raise(e) == [err |-> e, val |-> PyNone]

RECURSIVE Gcd(_, _)
Gcd(a, b) == IF b = 0 THEN a ELSE Gcd(b, a % b)

\* x * n / d.  None * 6076 raises TypeError (unsupported operand types); a
\* number multiplies.  A float is kept as the exact fraction in lowest terms,
\* one representation per value: rounding is not modelled.
PyMul(x, n, d) ==
    IF x.t \in {"int", "float", "bool"}
    THEN LET g == Gcd(x.n * n, x.d * d)
         IN  Return(PyFloat((x.n * n) \div g, (x.d * d) \div g))
    ELSE Raise("TypeError")

latitude == Return(gps.latitude)
longitude == Return(gps.longitude)
fix_quality == Return(gps.fix_quality)
has_fix == Return(gps.has_fix)
timestamp == Return(gps.timestamp_utc)
satellites == Return(gps.satellites)
altitude == Return(gps.altitude_m)
speed_knots == Return(gps.speed_knots)
\* speed_mph with the two constants exchanged
speed_mph_inverted == PyMul(gps.speed_knots, 5280, 6076)

\* line 155: self._gps.speed_knots * 6076 / 5280
speed_mph == PyMul(gps.speed_knots, 6076, 5280)
\* line 162: self._gps.speed_knots * 1.852
speed_kph == PyMul(gps.speed_knots, 1852, 1000)
track_angle == Return(gps.track_angle_deg)
horizontal_dilution == Return(gps.horizontal_dilution)
height_geoid == Return(gps.height_geoid)

Accessors ==
    {"latitude", "longitude", "fix_quality", "has_fix", "timestamp", "satellites",
     "altitude", "speed_knots", "speed_mph", "speed_kph", "track_angle",
     "horizontal_dilution", "height_geoid"}

Property(name) ==
    CASE name = "latitude" -> latitude
      [] name = "longitude" -> longitude
      [] name = "fix_quality" -> fix_quality
      [] name = "has_fix" -> has_fix
      [] name = "timestamp" -> timestamp
      [] name = "satellites" -> satellites
      [] name = "altitude" -> altitude
      [] name = "speed_knots" -> speed_knots
      [] name = "speed_mph" -> speed_mph
      [] name = "speed_kph" -> speed_kph
      [] name = "track_angle" -> track_angle
      [] name = "horizontal_dilution" -> horizontal_dilution
      [] name = "height_geoid" -> height_geoid

\* reading the property `name` of the constructed object
get(name) ==
    /\ pc = "ready"
    /\ call' = [op |-> name, arg |-> PyNone]
    /\ ret' = Property(name).val
    /\ err' = Property(name).err
    /\ UNCHANGED <<interp, pc, uart, gps>>

(***************************************************************************)
(* The program: one object, constructed once, then used in any order.      *)
(***************************************************************************)
Init ==
    /\ interp \in {"CircuitPython", "CPython"}
    /\ pc = "new"
    /\ uart = <<>>
    /\ gps = GPSInit
    /\ call = [op |-> "none", arg |-> PyNone]
    /\ ret = PyNone
    /\ err = "none"

Next ==
    \/ \E update_period \in UpdatePeriods : GPSFeatherWing(update_period)
    \/ update
    \/ \E size \in Sizes : read(size)
    \/ \E command \in Commands : send_command(command)
    \/ \E name \in Accessors : get(name)

Spec == Init /\ [][Next]_vars

(***************************************************************************)
(* Properties.                                                             *)
(***************************************************************************)
Max(a, b) == IF a >= b THEN a ELSE b
JustConstructed == call.op = "__init__"
Last(q) == q[Len(q)]

\* C1: an update_period that is not an integer or is below 250 makes
\* construction fail with ValueError before the transport is opened or any
\* command is sent, and every integer update_period >= 250 constructs the
\* object successfully.
C1_ConstructionAllOrNothing ==
    JustConstructed =>
        IF isinstance(call.arg, "int") /\ call.arg.n >= 250
        THEN pc = "ready" /\ err = "none"
        ELSE pc = "failed" /\ err = "ValueError" /\ uart = <<>>

\* C2, as stated: the timeout given to the transport is
\* max(3, update_period/1000 + 2) seconds, the quotient being the exact one
\* (compared here in milliseconds).
C2_TimeoutExactQuotient ==
    (JustConstructed /\ uart # <<>>) =>
        /\ uart[1].ev = "open"
        /\ uart[1].arg * 1000 = Max(3000, call.arg.n + 2000)

\* C2, amended: the timeout given to the transport is
\* max(3, floor(update_period/1000) + 2) seconds: a whole number t >= 3 with
\* t = 3 below 1000 ms and (t-2)*1000 <= update_period < (t-1)*1000 from
\* 1000 ms on; update_period = 250 gives 3.
C2_TimeoutFloorQuotient ==
    (JustConstructed /\ uart # <<>>) =>
        LET t == uart[1].arg
            p == call.arg.n
        IN  /\ uart[1].ev = "open"
            /\ t >= 3
            /\ p = 250 => t = 3
            /\ p < 1000 => t = 3
            /\ p >= 1000 => ((t - 2) * 1000 <= p /\ p < (t - 1) * 1000)

\* C2 witness: 1500 ms was accepted and the transport was opened with 3 s.
C2_Witness ==
    /\ JustConstructed
    /\ call.arg = PyInt(1500)
    /\ uart # <<>>
    /\ uart[1] = UartOpen(3)

\* C3: on a constructed object the transport log starts with the open, then
\* the GGA+RMC selection command, then the update-interval command carrying
\* update_period; the transport is opened once, and right after construction
\* the log holds nothing else.
C3_ConstructionSequence ==
    pc = "ready" =>
        /\ Len(uart) >= 3
        /\ uart[1].ev = "open"
        /\ uart[2] = UartWrite("PMTK314,0,1,0,1,0,0,0,0,0,0,0,0,0,0,0,0,0,0,0", 0)
        /\ uart[3].ev = "write"
        /\ uart[3].cmd = "PMTK220,{}"
        /\ \A i \in 2..Len(uart) : uart[i].ev # "open"
        /\ JustConstructed => (Len(uart) = 3 /\ uart[3].arg = call.arg.n)

\* C3 witness: construction with 1000 ms has succeeded.
C3_Witness ==
    /\ pc = "ready"
    /\ JustConstructed
    /\ call.arg = PyInt(1000)
    /\ Len(uart) = 3

\* C4, as stated: a command in a binary representation (bytes or bytearray)
\* is forwarded to the receiver by send_command.
C4_BinaryIsForwarded ==
    (call.op = "send_command" /\ call.arg.t \in {"bytes", "bytearray"}) =>
        /\ Len(uart) > 3
        /\ Last(uart) = UartWrite(call.arg.s, call.arg.n)

\* C4, amended: send_command forwards the command exactly when it is a
\* bytearray; for every other value, immutable bytes included, it writes
\* nothing; in both cases it raises nothing and leaves the Fix State and the
\* object as they were.
C4_OnlyByteArrayIsForwarded ==
    [][call'.op = "send_command" =>
        /\ err' = "none"
        /\ gps' = gps
        /\ pc' = pc
        /\ IF call'.arg.t = "bytearray"
           THEN uart' = Append(uart, UartWrite(call'.arg.s, call'.arg.n))
           ELSE uart' = uart]_vars

\* C4 witness: a bytearray command has been forwarded.
C4_Witness ==
    /\ call.op = "send_command"
    /\ call.arg = PyByteArray("PMTK605")
    /\ Len(uart) = 4
    /\ Last(uart).cmd = "PMTK605"

\* C5: no property read fails, and a property whose underlying attribute is
\* absent returns None (speed_mph and speed_kph when speed_knots is None).
C5_NoAccessorFails ==
    call.op \in Accessors =>
        /\ err = "none"
        /\ (call.op \in {"speed_knots", "speed_mph", "speed_kph"}
              /\ gps.speed_knots = PyNone) => ret = PyNone
        /\ (call.op = "latitude" /\ gps.latitude = PyNone) => ret = PyNone

\* C8: whenever speed_knots is known, a read of speed_mph returns
\* speed_knots * 6076 / 5280 and a read of speed_kph returns
\* speed_knots * 1.852 of the speed the Fix State holds at that moment;
\* 10 knots give 11.5076 mph (to four decimals) and 18.52 km/h.  The two
\* factors are written in lowest terms: 6076/5280 = 1519/1320 and
\* 1.852 = 463/250.
C8_DerivedSpeeds ==
    LET s == gps.speed_knots
    IN  (call.op \in {"speed_mph", "speed_kph"} /\ s.t # "NoneType") =>
            /\ err = "none"
            /\ ret.t = "float"
            /\ call.op = "speed_mph" =>
                 /\ ret.n * 1320 * s.d = s.n * 1519 * ret.d
                 /\ s.n = 10 * s.d =>
                      (2 * (ret.n * 10000 - 115076 * ret.d) <= ret.d
                       /\ 2 * (115076 * ret.d - ret.n * 10000) <= ret.d)
            /\ call.op = "speed_kph" =>
                 /\ ret.n * 250 * s.d = s.n * 463 * ret.d
                 /\ s.n = 10 * s.d => ret.n * 100 = 1852 * ret.d

\* C8 witness: an update has set speed_knots to 22.4 and speed_mph was read.
C8_Witness ==
    /\ call.op = "speed_mph"
    /\ gps.speed_knots = PyFloat(224, 10)
    /\ err = "none"

\* a positive integer in Python's sense (True is the integer 1)
IsPositiveInteger(x) == x.t \in {"int", "bool"} /\ x.n > 0

\* C10: only update() changes the Fix State: the constructor, read,
\* send_command and every property read leave it as it was; and read(size)
\* with a size that is not a positive integer leaves the transport alone and
\* returns None.
C10_FixStateOnlyByUpdate ==
    [][/\ call'.op # "update" => gps' = gps
       /\ (call'.op = "read" /\ ~IsPositiveInteger(call'.arg)) =>
            (uart' = uart /\ ret' = PyNone /\ err' = "none")]_vars

\* C10 witness: read(0) was called on an object whose Fix State holds a
\* position, and returned None.
C10_Witness ==
    /\ call.op = "read"
    /\ call.arg = PyInt(0)
    /\ gps.latitude # PyNone
    /\ ret = PyNone
    /\ Len(uart) = 3

====
